---- MODULE Spec2Model ----
(***************************************************************************)
(* Censored-demand pipeline of censored_demand:                            *)
(*   simulate.py  generate_daily_period_sales (first-come-first-served     *)
(*                depletion of a day's production by per-period demand)    *)
(*   predict.py   split_days_by_stockout, create_models_by_known_periods,  *)
(*                predict_stockout_day_demand, predict_stockout_daily_demand*)
(* Arrays are sequences (1-based); a (days, P) array is a sequence of rows. *)
(* Random draws (Gaussian totals, Poisson demand, Gaussian production) are *)
(* nondeterministic choices over the values the generators can return.     *)
(***************************************************************************)
EXTENDS Integers, Sequences, FiniteSets

\* ---- bounds of the model
MaxDays == 3           \* days simulated
MaxPeriods == 3        \* periods per day
MaxCells == 6          \* days * periods of one simulated array
MaxTotalDemand == 3    \* units demanded over the whole array
MaxProduction == 3     \* units produced on one day

VARIABLES
  pc,                   \* position in the pipeline
  time_periods,         \* P = len(intraday_demand_curve) = array shape[1]
  daily_period_demand,  \* true demand drawn by generate_daily_demand
  daily_production,     \* production drawn by generate_daily_production
  period_sales_daily,   \* total_period_sales returned by the simulator
  unsold_daily,         \* unsold_daily returned by the simulator
  complete_days,
  stockout_days,
  period_models,        \* dict: number of known periods -> fitted OLS result
  predicted,            \* output of predict_stockout_daily_demand
  model_calls           \* per stockout row: the period_models[k].predict(x) calls made

vars == <<pc, time_periods, daily_period_demand, daily_production,
          period_sales_daily, unsold_daily, complete_days, stockout_days,
          period_models, predicted, model_calls>>

\* ---- numpy helpers
RECURSIVE Sum(_)
Sum(s) == IF Len(s) = 0 THEN 0 ELSE s[1] + Sum(Tail(s))

CumSum(s) == [i \in 1..Len(s) |-> Sum(SubSeq(s, 1, i))]

RECURSIVE Dot(_, _)
Dot(a, b) == IF Len(a) = 0 THEN 0 ELSE a[1] * b[1] + Dot(Tail(a), Tail(b))

RECURSIVE SelectRows(_, _, _)
\* boolean-mask indexing a[mask]: the rows whose mask entry is TRUE, in order
SelectRows(rows, mask, i) ==
  IF i > Len(rows) THEN <<>>
  ELSE (IF mask[i] THEN <<rows[i]>> ELSE <<>>) \o SelectRows(rows, mask, i + 1)

RECURSIVE CountNonzero(_)
CountNonzero(s) ==
  IF Len(s) = 0 THEN 0
  ELSE (IF s[1] # 0 THEN 1 ELSE 0) + CountNonzero(Tail(s))

\* ---- simulate.py

RECURSIVE Vectors(_, _)
\* all sequences of n non-negative integers whose sum is at most budget
Vectors(n, budget) ==
  IF n = 0 THEN {<<>>}
  ELSE UNION {{<<v>> \o r : r \in Vectors(n - 1, budget - v)} : v \in 0..budget}

Reshape(flat, days, P) ==
  [d \in 1..days |-> [p \in 1..P |-> flat[(d - 1) * P + p]]]

\* The (days, P) arrays rgen.poisson can return: non-negative integers.
generate_daily_demand(days, P) ==
  {Reshape(flat, days, P) : flat \in Vectors(days * P, MaxTotalDemand)}

\* rint of a Gaussian draw per day (any integer, negative included), or the
\* same rint(production_mean) for every day when fixed_production is set.
ProductionValues == (-1)..MaxProduction

generate_daily_production(days, fixed_production) ==
  IF fixed_production
  THEN {[d \in 1..days |-> v] : v \in ProductionValues}
  ELSE [1..days -> ProductionValues]

remaining_by_period(demand, production) ==
  LET cumulative_period_demand == CumSum(demand)
  IN  [p \in 1..Len(demand) |-> production - cumulative_period_demand[p]]

completed_period_sales(demand, production) ==
  LET rem == remaining_by_period(demand, production)
  IN  [p \in 1..Len(demand) |-> IF rem[p] < 0 THEN 0 ELSE demand[p]]

partial_period_sales(demand, production) ==
  LET rem == remaining_by_period(demand, production)
      incompleted_sales ==
        [p \in 1..Len(demand) |-> IF rem[p] < 0 THEN demand[p] + rem[p] ELSE 0]
  IN  [p \in 1..Len(demand) |->
         IF incompleted_sales[p] < 0 THEN 0 ELSE incompleted_sales[p]]

total_period_sales(demand, production) ==
  [p \in 1..Len(demand) |->
     completed_period_sales(demand, production)[p]
       + partial_period_sales(demand, production)[p]]

unsold(demand, production) ==
  production - Sum(total_period_sales(demand, production))

\* ---- predict.py

split_complete(sales, unsold_d) ==
  SelectRows(sales, [i \in 1..Len(unsold_d) |-> unsold_d[i] > 0], 1)

split_stockout(sales, unsold_d) ==
  SelectRows(sales, [i \in 1..Len(unsold_d) |-> unsold_d[i] = 0], 1)

\* sm.OLS(Y, X).fit() with a single regressor and no intercept:
\* params = pinv(X) Y = (X.Y)/(X.X), and 0 when X is all zero.
OLSFit(Y, X) ==
  [endog |-> Y, exog |-> X, sxy |-> Dot(X, Y), sxx |-> Dot(X, X)]

NaN == [kind |-> "nan", num |-> 0, den |-> 0]
KeyError == [kind |-> "KeyError", num |-> 0, den |-> 0]

\* result.predict(x) = params * x, kept as the fraction num/den
OLSPredict(model, x) ==
  IF model.sxx = 0
  THEN [kind |-> "float", num |-> 0, den |-> 1]
  ELSE [kind |-> "float", num |-> model.sxy * x, den |-> model.sxx]

\* mutant: known_periods sliced as complete_days[:, 1:period]
create_models_skipping_first_period(days, num_periods) ==
  [period \in 1..(num_periods - 1) |->
     LET X == [i \in 1..Len(days) |-> Sum(SubSeq(days[i], 2, period))]
         Y == [i \in 1..Len(days) |-> Sum(days[i])]
     IN  OLSFit(Y, X)]

\* mutant: the loop runs over range(1, num_periods - 1)
create_models_short_range(days, num_periods) ==
  [period \in 1..(num_periods - 2) |->
     LET X == [i \in 1..Len(days) |-> Sum(SubSeq(days[i], 1, period))]
         Y == [i \in 1..Len(days) |-> Sum(days[i])]
     IN  OLSFit(Y, X)]

create_models_by_known_periods(days, num_periods) ==
  [period \in 1..(num_periods - 1) |->
     LET X == [i \in 1..Len(days) |-> Sum(SubSeq(days[i], 1, period))]
         Y == [i \in 1..Len(days) |-> Sum(days[i])]
     IN  OLSFit(Y, X)]

\* mutant: the mask is cumsum_periods <= days_sum
known_periods_inclusive(s) ==
  LET days_sum == Sum(s)
      cumsum_periods == CumSum(s)
  IN  [p \in 1..Len(s) |-> IF cumsum_periods[p] <= days_sum THEN s[p] ELSE 0]

known_periods(s) ==
  LET days_sum == Sum(s)
      cumsum_periods == CumSum(s)
  IN  [p \in 1..Len(s) |-> IF cumsum_periods[p] < days_sum THEN s[p] ELSE 0]

\* mutant: the masked periods are counted, np.sum(cumsum_periods < days_sum)
num_known_periods_by_mask(s) ==
  Cardinality({p \in 1..Len(s) : CumSum(s)[p] < Sum(s)})

num_known_periods(s) == CountNonzero(known_periods(s))

known_demand(s) == Sum(SubSeq(s, 1, num_known_periods(s)))

\* the value returned for one day, and the predict calls made on the table
predict_stockout_day_demand(s, models) ==
  IF num_known_periods(s) > 0
  THEN [value |-> IF num_known_periods(s) \in DOMAIN models
                  THEN OLSPredict(models[num_known_periods(s)], known_demand(s))
                  ELSE KeyError,
        calls |-> <<[key |-> num_known_periods(s), x |-> known_demand(s)]>>]
  ELSE [value |-> NaN, calls |-> <<>>]

RECURSIVE ApplyAlongAxis(_, _, _)
\* np.apply_along_axis(predict_stockout_day_demand, 1, rows, models)
ApplyAlongAxis(rows, models, i) ==
  IF i > Len(rows) THEN <<>>
  ELSE <<predict_stockout_day_demand(rows[i], models)>>
         \o ApplyAlongAxis(rows, models, i + 1)

\* mutant: rows whose prediction is undefined are dropped from the output
predict_dropping_undefined(rows, models) ==
  SelectSeq(ApplyAlongAxis(rows, models, 1), LAMBDA r : r.value # NaN)

predict_stockout_daily_demand(rows, models) == ApplyAlongAxis(rows, models, 1)

\* ---- the pipeline

Init ==
  /\ pc = "start"
  /\ time_periods = 0
  /\ daily_period_demand = <<>>
  /\ daily_production = <<>>
  /\ period_sales_daily = <<>>
  /\ unsold_daily = <<>>
  /\ complete_days = <<>>
  /\ stockout_days = <<>>
  /\ period_models = <<>>
  /\ predicted = <<>>
  /\ model_calls = <<>>

generate_daily_period_sales ==
  /\ pc = "start"
  /\ \E days \in 1..MaxDays, P \in 1..MaxPeriods, fixed_production \in BOOLEAN :
       /\ days * P <= MaxCells
       /\ \E demand \in generate_daily_demand(days, P),
             production \in generate_daily_production(days, fixed_production) :
            /\ time_periods' = P
            /\ daily_period_demand' = demand
            /\ daily_production' = production
            /\ period_sales_daily' =
                 [d \in 1..days |-> total_period_sales(demand[d], production[d])]
            /\ unsold_daily' = [d \in 1..days |-> unsold(demand[d], production[d])]
  /\ pc' = "simulated"
  /\ UNCHANGED <<complete_days, stockout_days, period_models, predicted, model_calls>>

split_days_by_stockout ==
  /\ pc = "simulated"
  /\ complete_days' = split_complete(period_sales_daily, unsold_daily)
  /\ stockout_days' = split_stockout(period_sales_daily, unsold_daily)
  /\ pc' = "split"
  /\ UNCHANGED <<time_periods, daily_period_demand, daily_production,
                 period_sales_daily, unsold_daily, period_models, predicted,
                 model_calls>>

\* Fitting is statsmodels' own code.  With at least one row the fit is the
\* least-squares solution above; what fit() does with zero rows is not decided
\* by this repository, so both outcomes are kept: the degenerate fit (Train)
\* and an exception out of create_models_by_known_periods (TrainFails).
Train ==
  /\ pc = "split"
  /\ period_models' = create_models_by_known_periods(complete_days, time_periods)
  /\ pc' = "trained"
  /\ UNCHANGED <<time_periods, daily_period_demand, daily_production,
                 period_sales_daily, unsold_daily, complete_days, stockout_days,
                 predicted, model_calls>>

TrainFails ==
  /\ pc = "split"
  /\ Len(complete_days) = 0
  /\ time_periods >= 2
  /\ pc' = "untrained"
  /\ UNCHANGED <<time_periods, daily_period_demand, daily_production,
                 period_sales_daily, unsold_daily, complete_days, stockout_days,
                 period_models, predicted, model_calls>>

\* A KeyError raised by period_models[num_known_periods] leaves
\* predict_stockout_daily_demand without a result.
PredictBatch ==
  /\ pc = "trained"
  /\ LET out == predict_stockout_daily_demand(stockout_days, period_models)
     IN  IF \E i \in 1..Len(out) : out[i].value = KeyError
         THEN /\ pc' = "lookup_miss"
              /\ UNCHANGED <<predicted, model_calls>>
         ELSE /\ pc' = "predicted"
              /\ predicted' = [i \in 1..Len(out) |-> out[i].value]
              /\ model_calls' = [i \in 1..Len(out) |-> out[i].calls]
  /\ UNCHANGED <<time_periods, daily_period_demand, daily_production,
                 period_sales_daily, unsold_daily, complete_days, stockout_days,
                 period_models>>

Next ==
  \/ generate_daily_period_sales
  \/ split_days_by_stockout
  \/ Train
  \/ TrainFails
  \/ PredictBatch

Spec == Init /\ [][Next]_vars

\* The runs in which fit() is only ever given at least one complete day: the
\* zero-row fit always raises.
TrainOnData ==
  /\ Len(complete_days) > 0 \/ time_periods < 2
  /\ Train

NextFit ==
  \/ generate_daily_period_sales
  \/ split_days_by_stockout
  \/ TrainOnData
  \/ TrainFails
  \/ PredictBatch

SpecFit == Init /\ [][NextFit]_vars

\* ---- properties

Rows(seq) == {seq[i] : i \in 1..Len(seq)}

\* the mask of predict_stockout_day_demand as the specification words it:
\* the periods whose running cumulative sum is strictly below the day's total
MaskedPeriods(s) == {p \in 1..Len(s) : CumSum(s)[p] < Sum(s)}

RECURSIVE SumOver(_, _)
SumOver(s, P) ==
  IF P = {} THEN 0
  ELSE LET p == CHOOSE q \in P : TRUE IN s[p] + SumOver(s, P \ {p})

\* the key of the model a stockout row selected (0: no model was consulted)
KeyUsed(i) == IF model_calls[i] = <<>> THEN 0 ELSE model_calls[i][1].key

AtMostOneNonzero(s) == Cardinality({p \in 1..Len(s) : s[p] # 0}) <= 1

Partitioned == pc \in {"split", "trained", "untrained", "predicted", "lookup_miss"}

\* C1: after split_days_by_stockout the rows of complete_days and of
\* stockout_days together number the input days, and every input row is in one
\* of the two outputs.
C1_PartitionComplete ==
  Partitioned =>
    /\ Len(complete_days) + Len(stockout_days) = Len(period_sales_daily)
    /\ Rows(period_sales_daily) = Rows(complete_days) \cup Rows(stockout_days)

\* C2: for P >= 2 the trained table has exactly the keys 1..P-1, and the model
\* under key k is fitted on every complete day, with the sum of the day's first
\* k periods as independent and the sum of all its periods as dependent variable.
C2_ModelTable ==
  (pc \in {"trained", "predicted"} /\ time_periods >= 2) =>
    /\ DOMAIN period_models = 1..(time_periods - 1)
    /\ \A k \in DOMAIN period_models :
         /\ period_models[k].exog =
              [i \in 1..Len(complete_days) |-> Sum(SubSeq(complete_days[i], 1, k))]
         /\ period_models[k].endog =
              [i \in 1..Len(complete_days) |-> Sum(complete_days[i])]

C2_Witness ==
  /\ pc = "trained"
  /\ time_periods = 3
  /\ Len(complete_days) = 2
  /\ DOMAIN period_models = {1, 2}
  /\ period_models[1].exog # period_models[2].exog
  /\ period_models[1].exog[1] # period_models[1].exog[2]

\* C3: the key a stockout row uses to select its model equals the number of
\* periods whose running cumulative sum is strictly below the day's total.
C3_NumKnownIsMaskCount ==
  pc = "predicted" =>
    \A i \in 1..Len(stockout_days) :
      KeyUsed(i) = Cardinality(MaskedPeriods(stockout_days[i]))

C6_UnsoldNonNegative ==
  pc # "start" =>
    /\ Len(unsold_daily) = Len(period_sales_daily)
    /\ \A d \in 1..Len(unsold_daily) :
         /\ unsold_daily[d] >= 0
         /\ \A p \in 1..time_periods : period_sales_daily[d][p] >= 0

\* C7: the periods counted toward num_known are the leading prefix of the
\* record, and the known demand passed to the model is the total sales of the
\* periods whose cumulative sum is strictly below the day's total.
C7_KnownDemandIsMaskedSales ==
  pc = "predicted" =>
    \A i \in 1..Len(stockout_days) :
      model_calls[i] # <<>> =>
        /\ {p \in 1..time_periods : known_periods(stockout_days[i])[p] # 0}
             = 1..model_calls[i][1].key
        /\ model_calls[i][1].x
             = SumOver(stockout_days[i], MaskedPeriods(stockout_days[i]))

\* C8: num_known lies in 0..P-1 for every simulated record, and a positive
\* num_known is always a key of the table trained on P-period data: no lookup
\* misses.
C8_LookupNeverMisses ==
  /\ pc # "lookup_miss"
  /\ \A d \in 1..Len(period_sales_daily) :
       /\ num_known_periods(period_sales_daily[d]) >= 0
       /\ num_known_periods(period_sales_daily[d]) <= time_periods - 1
  /\ pc \in {"trained", "predicted"} =>
       \A i \in 1..Len(stockout_days) :
         num_known_periods(stockout_days[i]) > 0 =>
           num_known_periods(stockout_days[i]) \in DOMAIN period_models
  /\ pc = "predicted" =>
       \A i \in 1..Len(stockout_days) :
         model_calls[i] # <<>> => model_calls[i][1].key \in DOMAIN period_models

C8_Witness ==
  /\ pc = "predicted"
  /\ time_periods = 3
  /\ Len(complete_days) > 0
  /\ \E i \in 1..Len(stockout_days) :
       /\ KeyUsed(i) = time_periods - 1
       /\ predicted[i].kind = "float"

\* C9: on every simulated stockout day (unsold == 0) each of the first
\* num_known periods sold exactly its true demand, so known_demand is the true
\* demand of those periods.
C9_KnownPeriodsUncensored ==
  pc # "start" =>
    \A d \in 1..Len(unsold_daily) :
      unsold_daily[d] = 0 =>
        /\ \A p \in 1..num_known_periods(period_sales_daily[d]) :
             period_sales_daily[d][p] = daily_period_demand[d][p]
        /\ known_demand(period_sales_daily[d])
             = Sum(SubSeq(daily_period_demand[d], 1,
                          num_known_periods(period_sales_daily[d])))

C9_Witness ==
  /\ pc = "predicted"
  /\ Len(complete_days) > 0
  /\ \E d \in 1..Len(unsold_daily) :
       /\ unsold_daily[d] = 0
       /\ period_sales_daily[d] # daily_period_demand[d]
       /\ num_known_periods(period_sales_daily[d]) > 0
       /\ \E i \in 1..Len(stockout_days) :
            /\ stockout_days[i] = period_sales_daily[d]
            /\ model_calls[i] # <<>>

\* C10: whenever a model is asked for an estimate, the known demand passed to
\* it is strictly positive.
C10_KnownDemandPositive ==
  pc = "predicted" =>
    \A i \in 1..Len(stockout_days) :
      model_calls[i] # <<>> => model_calls[i][1].x > 0

====
